---- MODULE Spec2Model ----
(***************************************************************************)
(* Flood-mapping workflow of openeo-flood-mapper-local: the local notebook *)
(* (notebooks/1_yeoda_dc.qmd) and the remote one (unnamed/part_001).       *)
(* The rasters hold floating point numbers. They are modelled as decimal   *)
(* floating point values with 7 significant digits and the exponent range  *)
(* of an IEEE double, with infinities and NaN; every arithmetic step of    *)
(* the code is one floating point operation of the model.                  *)
(***************************************************************************)
EXTENDS Integers, Sequences, FiniteSets, TLC

(***************************************************************************)
(* Floating point arithmetic (numpy / openEO processes).                   *)
(* A finite value is s * m * 10^e with s in {-1, 1} and m of 7 digits.     *)
(***************************************************************************)
NaN == [k |-> "nan", s |-> 0, m |-> 0, e |-> 0]

Inf(sgn) == [k |-> "inf", s |-> sgn, m |-> 0, e |-> 0]

Zero == [k |-> "num", s |-> 0, m |-> 0, e |-> 0]

Pow10(n) == <<1, 10, 100, 1000, 10000, 100000, 1000000, 10000000, 100000000, 1000000000>>[n + 1]

Sgn(i) == IF i > 0 THEN 1 ELSE IF i < 0 THEN -1 ELSE 0

Abs(i) == IF i < 0 THEN -i ELSE i

RECURSIVE FNorm(_, _, _)
\* Rounds s * m * 10^e to 7 digits; overflows to infinity, underflows to zero.
FNorm(sgn, m, e) ==
  IF m = 0 \/ sgn = 0 THEN Zero
  ELSE IF m < 1000000 THEN FNorm(sgn, m * 10, e - 1)
  ELSE IF m >= 10000000 THEN FNorm(sgn, (m + 5) \div 10, e + 1)
  ELSE IF e > 302 THEN Inf(sgn)
  ELSE IF e < -330 THEN Zero
  ELSE [k |-> "num", s |-> sgn, m |-> m, e |-> e]

\* The literal n * 10^e.
F(n, e) == FNorm(Sgn(n), Abs(n), e)

One == F(1, 0)

Two == F(2, 0)

Three == F(3, 0)

IsNaN(a) == a.k = "nan"

IsZero(a) == a.k = "num" /\ a.s = 0

FNeg(a) == [a EXCEPT !.s = -a.s]

\* floor(a * b / 10^6) for 7-digit a and b, within 32-bit integers.
MulHi(a, b) ==
  LET a1 == a \div 10000
      a0 == a % 10000
      b1 == b \div 10000
      b0 == b % 10000
      mid == a1 * b0 + a0 * b1
      lo == a0 * b0
  IN a1 * b1 * 100 + mid \div 100 + ((mid % 100) * 10000 + lo) \div 1000000

FMul(a, b) ==
  IF IsNaN(a) \/ IsNaN(b) THEN NaN
  ELSE IF b = One THEN a
  ELSE IF a = One THEN b
  ELSE IF a.k = "inf" \/ b.k = "inf"
       THEN IF a.s * b.s = 0 THEN NaN ELSE Inf(a.s * b.s)
  ELSE IF a.s = 0 \/ b.s = 0 THEN Zero
  ELSE FNorm(a.s * b.s, MulHi(a.m, b.m), a.e + b.e + 6)

RECURSIVE DivDigits(_, _, _, _)
\* n more decimal digits of the quotient whose digits so far are acc.
DivDigits(r, d, n, acc) ==
  IF n = 0 THEN acc
  ELSE DivDigits((r * 10) % d, d, n - 1, acc * 10 + (r * 10) \div d)

FDiv(a, b) ==
  IF IsNaN(a) \/ IsNaN(b) THEN NaN
  ELSE IF a.k = "inf"
       THEN IF b.k = "inf" THEN NaN ELSE Inf(IF b.s < 0 THEN -a.s ELSE a.s)
  ELSE IF b.k = "inf" THEN Zero
  ELSE IF b.s = 0 THEN IF a.s = 0 THEN NaN ELSE Inf(a.s)
  ELSE IF a.s = 0 THEN Zero
  ELSE FNorm(a.s * b.s, DivDigits(a.m % b.m, b.m, 7, a.m \div b.m), a.e - b.e - 7)

FAdd(a, b) ==
  IF IsNaN(a) \/ IsNaN(b) THEN NaN
  ELSE IF a.k = "inf"
       THEN IF b.k = "inf" /\ b.s # a.s THEN NaN ELSE a
  ELSE IF b.k = "inf" THEN b
  ELSE IF a.s = 0 THEN b
  ELSE IF b.s = 0 THEN a
  ELSE LET hi == IF a.e >= b.e THEN a ELSE b
           lo == IF a.e >= b.e THEN b ELSE a
           d == hi.e - lo.e
       IN IF d > 9 THEN hi
          ELSE LET sum == hi.s * hi.m * 100 + lo.s * ((lo.m * 100) \div Pow10(d))
               IN FNorm(Sgn(sum), Abs(sum), hi.e - 2)

FSub(a, b) == FAdd(a, FNeg(b))

\* the decimal exponent of a finite value, and one above them all for infinity
Magnitude(a) == IF a.k = "inf" THEN 1000 ELSE a.e

\* Comparisons: any comparison with NaN is false.
FLt(a, b) ==
  /\ ~IsNaN(a)
  /\ ~IsNaN(b)
  /\ IF a.s # b.s THEN a.s < b.s
     ELSE IF a.s > 0
          THEN Magnitude(a) < Magnitude(b) \/ (Magnitude(a) = Magnitude(b) /\ a.m < b.m)
     ELSE IF a.s < 0
          THEN Magnitude(a) > Magnitude(b) \/ (Magnitude(a) = Magnitude(b) /\ a.m > b.m)
     ELSE FALSE

FGt(a, b) == FLt(b, a)

FLe(a, b) == ~IsNaN(a) /\ ~IsNaN(b) /\ ~FLt(b, a)

FGe(a, b) == FLe(b, a)

RECURSIVE FPow(_, _)
FPow(a, n) == IF n = 0 THEN One ELSE FMul(a, FPow(a, n - 1))

\* exp(-y) for a finite y > 0: the decimal digits of y select powers of
\* exp(-100) .. exp(-0.001); the rest r < 0.001 enters as 1 - r + r^2/2.
ExpNeg(y) ==
  IF y.e >= -3 THEN Zero
  ELSE LET sh == y.e + 6
           Y == IF sh >= 0 THEN y.m * Pow10(sh)
                ELSE IF sh >= -9 THEN y.m \div Pow10(-sh) ELSE 0
           r == F(Y % 1000, -6)
           tail == FAdd(FSub(One, r), FMul(F(5, -1), FMul(r, r)))
           p100 == FPow(F(3720076, -50), Y \div 100000000)
           p10 == FPow(F(4539993, -11), (Y \div 10000000) % 10)
           p1 == FPow(F(3678794, -7), (Y \div 1000000) % 10)
           pt == FPow(F(9048374, -7), (Y \div 100000) % 10)
           ph == FPow(F(9900498, -7), (Y \div 10000) % 10)
           pm == FPow(F(9990005, -7), (Y \div 1000) % 10)
       IN FMul(p100, FMul(p10, FMul(p1, FMul(pt, FMul(ph, FMul(pm, tail))))))

\* np.exp
FExp(x) ==
  IF IsNaN(x) THEN NaN
  ELSE IF x.k = "inf" THEN IF x.s > 0 THEN x ELSE Zero
  ELSE IF x.s = 0 THEN One
  ELSE IF x.s < 0 THEN ExpNeg(FNeg(x))
  ELSE FDiv(One, ExpNeg(x))

Pi == F(3141593, -6)

RECURSIVE ReduceAngle(_)
\* x - 2*pi*n in [0, 2*pi) for a finite x >= 0
ReduceAngle(x) ==
  IF FLt(x, FMul(Two, Pi)) THEN x ELSE ReduceAngle(FSub(x, FMul(Two, Pi)))

\* sin on [0, pi/2]: the Taylor polynomial up to x^11
SinQ(x) ==
  LET x2 == FMul(x, x)
      t5 == FSub(One, FDiv(x2, F(110, 0)))
      t4 == FSub(One, FMul(FDiv(x2, F(72, 0)), t5))
      t3 == FSub(One, FMul(FDiv(x2, F(42, 0)), t4))
      t2 == FSub(One, FMul(FDiv(x2, F(20, 0)), t3))
      t1 == FSub(One, FMul(FDiv(x2, F(6, 0)), t2))
  IN FMul(x, t1)

\* np.sin, for a finite x >= 0
FSin(x) ==
  LET r == ReduceAngle(x)
      h == IF FGe(r, Pi) THEN FSub(r, Pi) ELSE r
      q == IF FGt(h, FDiv(Pi, Two)) THEN FSub(Pi, h) ELSE h
  IN IF FGe(r, Pi) THEN FNeg(SinQ(q)) ELSE SinQ(q)

\* np.cos, for a finite x >= 0
FCos(x) == FSin(FAdd(x, FDiv(Pi, Two)))

(***************************************************************************)
(* Rasters and data cubes.  A cube has named bands; data[p] is the         *)
(* sequence of band values of pixel p, in the order of labels.             *)
(***************************************************************************)
Width == 3

Height == 3

MaxMasks == 2

Pixels == (1 .. Width) \X (1 .. Height)

PixelIndex(p) == (p[2] - 1) * Width + (p[1] - 1)

Cube(labels, data) == [labels |-> labels, data |-> data]

NoCube == Cube(<<>>, [p \in Pixels |-> <<>>])

\* a raster not computed yet
NoRaster == [p \in Pixels |-> NaN]

\* the cube has a band of this name
HasBand(cube, name) == \E i \in 1 .. Len(cube.labels) : cube.labels[i] = name

BandIndex(cube, name) == CHOOSE i \in 1 .. Len(cube.labels) : cube.labels[i] = name

\* DataCube.band(name): the raster of one band
band(cube, name) == [p \in Pixels |-> cube.data[p][BandIndex(cube, name)]]

\* raster.add_dimension('bands', name, 'bands')
add_dimension(raster, name) == Cube(<<name>>, [p \in Pixels |-> <<raster[p]>>])

\* the bands of b put before the bands of a
merge_cubes_before(a, b) ==
  Cube(b.labels \o a.labels, [p \in Pixels |-> b.data[p] \o a.data[p]])

\* a.merge_cubes(b): the bands of a followed by the bands of b
merge_cubes(a, b) ==
  Cube(a.labels \o b.labels, [p \in Pixels |-> a.data[p] \o b.data[p]])

\* cube.reduce_bands(callback): the callback sees the band values of one pixel
reduce_bands(cube, callback(_)) == [p \in Pixels |-> callback(cube.data[p])]

RECURSIVE FSum(_)
FSum(x) == IF x = <<>> THEN Zero ELSE FAdd(FSum(SubSeq(x, 1, Len(x) - 1)), x[Len(x)])

\* the 'mean' reducer
mean(x) == FDiv(FSum(x), F(Len(x), 0))

\* the k-th smallest of the values x, none of them NaN
Kth(x, k) ==
  LET i == CHOOSE i \in 1 .. Len(x) :
             /\ Cardinality({j \in 1 .. Len(x) : FLt(x[j], x[i])}) < k
             /\ Cardinality({j \in 1 .. Len(x) : FLe(x[j], x[i])}) >= k
  IN x[i]

\* the largest value in place of the middle one
median_as_max(x) ==
  IF \E j \in 1 .. Len(x) : IsNaN(x[j]) THEN NaN ELSE Kth(x, Len(x))

\* the window averaged: 'mean' in place of 'median'
median_as_mean(x) == mean(x)

\* the 'median' reducer: the middle of the sorted values, the mean of the two
\* middle ones for an even count, NaN when a value is NaN
median(x) ==
  LET n == Len(x)
  IN IF \E j \in 1 .. n : IsNaN(x[j]) THEN NaN
     ELSE IF n % 2 = 1 THEN Kth(x, (n + 1) \div 2)
     ELSE FDiv(FAdd(Kth(x, n \div 2), Kth(x, n \div 2 + 1)), Two)

\* the window of apply_neighborhood: offsets x = -1 up to, not including, x = 2
WindowFrom == -1

WindowTo == 2

WindowSize == WindowTo - WindowFrom

RECURSIVE Concat(_)
\* the sequences of x, one after the other
Concat(x) == IF x = <<>> THEN <<>> ELSE Head(x) \o Concat(Tail(x))

\* what a window finds outside the grid; the notebook does not say: the window
\* shrinks to the grid, or sees zero, no data, or the nearest pixel of the grid
Borders == {"shrink", "zero", "nan", "nearest"}

Clamp(i, hi) == IF i < 1 THEN 1 ELSE IF i > hi THEN hi ELSE i

\* the values of raster in the window around pixel p, row by row
Window(raster, p, b) ==
  LET at(d) == <<p[1] + d[1], p[2] + d[2]>>
      \* the value the window holds at offset d, <<>> when it holds none
      value(d) ==
        IF at(d) \in Pixels THEN <<raster[at(d)]>>
        ELSE IF b = "shrink" THEN <<>>
        ELSE IF b = "zero" THEN <<Zero>>
        ELSE IF b = "nan" THEN <<NaN>>
        ELSE <<raster[<<Clamp(at(d)[1], Width), Clamp(at(d)[2], Height)>>]>>
  IN Concat([k \in 1 .. WindowSize * WindowSize |->
               value(<<WindowFrom + ((k - 1) % WindowSize),
                       WindowFrom + ((k - 1) \div WindowSize)>>)])

\* raster.apply_neighborhood("median", dict(x=-1, y=-1), dict(x=2, y=2))
apply_neighborhood(raster, b) == [p \in Pixels |-> median(Window(raster, p, b))]

\* a boolean raster value as a number
Num(b) == IF b THEN One ELSE Zero

\* cube + mask in place of cube * mask
MultiplyAsAdd(cube, mask) ==
  [cube EXCEPT !.data = [p \in Pixels |->
      LET row == cube.data[p]
          m == Num(mask[p])
      IN [i \in 1 .. Len(row) |-> FAdd(row[i], m)]]]

\* the mask inverted: true suppresses, false retains
MultiplyInverted(cube, mask) ==
  [cube EXCEPT !.data = [p \in Pixels |->
      LET row == cube.data[p]
          m == Num(~mask[p])
      IN [i \in 1 .. Len(row) |-> FMul(row[i], m)]]]

\* cube * mask: every band of the pixel times the mask value (true = 1, false = 0)
Multiply(cube, mask) ==
  [cube EXCEPT !.data = [p \in Pixels |->
      LET row == cube.data[p]
          m == Num(mask[p])
      IN [i \in 1 .. Len(row) |-> FMul(row[i], m)]]]

(***************************************************************************)
(* The models.                                                             *)
(***************************************************************************)
\* the global standard deviation of water backscatter, 2.754041
nf_std == F(2754041, -6)

\* the bounds of the tolerable incidence angle, 27 and 48 degrees
AngleMin == F(27, 0)

AngleMax == F(48, 0)

\* the cut-off of the decision band, 0.8
DecisionCutoff == F(8, -1)

\* the coefficients of the linear water model
WaterSlope == F(-394181, -6)

WaterIntercept == F(-4142015, -6)

AngleBand(wf) == IF wf = "local" THEN "PLIA" ELSE "MPLIA"

\* slope and intercept exchanged: angle * -4.142015 + -0.394181
water_model_swapped(theta) == FAdd(FMul(theta, WaterIntercept), WaterSlope)

\* one pixel of water_backscatter: angle * -0.394181 + -4.142015
water_model(theta) == FAdd(FMul(theta, WaterSlope), WaterIntercept)

\* the mean taken over the pixels of the scene in place of the bands of a pixel
water_backscatter_over_pixels(plia_dc, wf) ==
  LET all == [i \in 1 .. Width * Height |->
                water_model(plia_dc.data[CHOOSE p \in Pixels : PixelIndex(p) = i - 1][1])]
  IN add_dimension([p \in Pixels |-> mean(all)], "wbsc")

water_backscatter(plia_dc, wf) ==
  IF wf = "local"
  THEN add_dimension(
         reduce_bands(Cube(plia_dc.labels,
                           [p \in Pixels |-> [i \in 1 .. Len(plia_dc.data[p]) |->
                               water_model(plia_dc.data[p][i])]]), mean), "wbsc")
  ELSE add_dimension([p \in Pixels |-> water_model(band(plia_dc, "MPLIA")[p])], "wbsc")

IsLeap(y) == (y % 4 = 0 /\ y % 100 # 0) \/ y % 400 = 0

DaysInMonth(y, m) ==
  IF m = 2 THEN (IF IsLeap(y) THEN 29 ELSE 28)
  ELSE IF m \in {4, 6, 9, 11} THEN 30 ELSE 31

RECURSIVE DaysBefore(_, _)
DaysBefore(y, m) == IF m = 1 THEN 0 ELSE DaysBefore(y, m - 1) + DaysInMonth(y, m - 1)

Digits == <<"0", "1", "2", "3", "4", "5", "6", "7", "8", "9">>

IsDigit(c) == \E i \in 1 .. 10 : Digits[i] = c

DigitValue(c) == (CHOOSE i \in 1 .. 10 : Digits[i] = c) - 1

\* the number written by a string of digits
RECURSIVE Number(_)
Number(s) ==
  IF s = <<>> THEN 0 ELSE Number(SubSeq(s, 1, Len(s) - 1)) * 10 + DigitValue(s[Len(s)])

\* %m: 1[0-2]|0[1-9]|[1-9]
MatchesMonth(s) ==
  \/ Len(s) = 2 /\ s[1] = "1" /\ s[2] \in {"0", "1", "2"}
  \/ Len(s) = 2 /\ s[1] = "0" /\ IsDigit(s[2]) /\ s[2] # "0"
  \/ Len(s) = 1 /\ IsDigit(s[1]) /\ s[1] # "0"

\* %d: 3[0-1]|[1-2]\d|0[1-9]|[1-9]| [1-9]
MatchesDay(s) ==
  \/ Len(s) = 2 /\ s[1] = "3" /\ s[2] \in {"0", "1"}
  \/ Len(s) = 2 /\ s[1] \in {"1", "2"} /\ IsDigit(s[2])
  \/ Len(s) = 2 /\ s[1] \in {"0", " "} /\ IsDigit(s[2]) /\ s[2] # "0"
  \/ Len(s) = 1 /\ IsDigit(s[1]) /\ s[1] # "0"

\* the value of a matched %d
DayValue(s) == IF s[1] = " " THEN DigitValue(s[2]) ELSE Number(s)

\* the date that raises ValueError
NoDate == [err |-> TRUE, y |-> 0, m |-> 0, d |-> 0]

\* only the zero-padded form year-month-day of ten characters is accepted
strptime_padded(s) ==
  IF /\ Len(s) = 10
     /\ \A i \in {1, 2, 3, 4, 6, 7, 9, 10} : IsDigit(s[i])
     /\ s[5] = "-" /\ s[8] = "-"
     /\ Number(SubSeq(s, 1, 4)) >= 1
     /\ Number(SubSeq(s, 6, 7)) \in 1 .. 12
     /\ Number(SubSeq(s, 9, 10)) \in
          1 .. DaysInMonth(Number(SubSeq(s, 1, 4)), Number(SubSeq(s, 6, 7)))
  THEN [err |-> FALSE, y |-> Number(SubSeq(s, 1, 4)), m |-> Number(SubSeq(s, 6, 7)),
        d |-> Number(SubSeq(s, 9, 10))]
  ELSE NoDate

\* datetime.strptime(s, "%Y-%m-%d"): four digits, a hyphen, a month, a hyphen and
\* a day up to the end of the string, naming a day of the calendar; ValueError
\* for anything else
strptime(s) ==
  LET n == Len(s)
      \* the month has one or two characters
      ml == IF n >= 7 /\ s[7] = "-" THEN 1 ELSE 2
      month == SubSeq(s, 6, 5 + ml)
      day == SubSeq(s, 7 + ml, n)
  IN IF /\ n >= 8
        /\ \A i \in 1 .. 4 : IsDigit(s[i])
        /\ s[5] = "-"
        /\ s[6 + ml] = "-"
        /\ MatchesMonth(month)
        /\ MatchesDay(day)
        /\ Number(SubSeq(s, 1, 4)) >= 1
        /\ DayValue(day) <= DaysInMonth(Number(SubSeq(s, 1, 4)), Number(month))
     THEN [err |-> FALSE, y |-> Number(SubSeq(s, 1, 4)), m |-> Number(month),
           d |-> DayValue(day)]
     ELSE NoDate

\* the day of the year without the leap day: 1 March is day 60 in every year
tm_yday_common(dt) == DaysBefore(2001, dt.m) + dt.d

\* dt.timetuple().tm_yday
tm_yday(dt) == DaysBefore(dt.y, dt.m) + dt.d

\* a year of 366 days: w = np.pi * 2 / 366
AngularFrequency366 == FDiv(FMul(Pi, Two), F(366, 0))

\* w = np.pi * 2 / 365
AngularFrequency == FDiv(FMul(Pi, Two), F(365, 0))

\* the harmonic model at day t of the year: the body of
\* harmonic_expected_backscatter from wt = w * t on
harmonic_model(data, t) ==
  LET w == AngularFrequency
      wt == FMul(w, F(t, 0))
      M0 == band(data, "M0")
      S1 == band(data, "S1")
      S2 == band(data, "S2")
      S3 == band(data, "S3")
      C1 == band(data, "C1")
      C2 == band(data, "C2")
      C3 == band(data, "C3")
      wt2 == FMul(Two, wt)
      wt3 == FMul(Three, wt)
      hm_c1 == [p \in Pixels |->
                 FAdd(FAdd(M0[p], FMul(S1[p], FSin(wt))), FMul(C1[p], FCos(wt)))]
      hm_c2 == [p \in Pixels |->
                 FAdd(FAdd(hm_c1[p], FMul(S2[p], FSin(wt2))), FMul(C2[p], FCos(wt2)))]
      hm_c3 == [p \in Pixels |->
                 FAdd(FAdd(hm_c2[p], FMul(S3[p], FSin(wt3))), FMul(C3[p], FCos(wt3)))]
  IN add_dimension(hm_c3, "hbsc")

\* the bands harmonic_expected_backscatter reads, in the order it reads them
HarmonicBands == <<"M0", "S1", "S2", "S3", "C1", "C2", "C3">>

harmonic_expected_backscatter(data, dtime_str) ==
  harmonic_model(data, tm_yday(strptime(dtime_str)))

\* np.sqrt(2 * np.pi)
Sqrt2Pi == F(2506628, -6)

Half == F(5, -1)

MinusHalf == F(-5, -1)

\* f_prob of bayesian_flood_decision
f_prob(sig0, std, wbsc) ==
  LET z == FDiv(FSub(sig0, wbsc), nf_std)
  IN FMul(FDiv(One, FMul(std, Sqrt2Pi)), FExp(FMul(MinusHalf, FMul(z, z))))

\* nf_prob of bayesian_flood_decision
nf_prob(sig0, hbsc) ==
  LET z == FDiv(FSub(sig0, hbsc), nf_std)
  IN FMul(FDiv(One, FMul(nf_std, Sqrt2Pi)), FExp(FMul(MinusHalf, FMul(z, z))))

evidence(x) ==
  FAdd(FMul(nf_prob(x[1], x[4]), Half), FMul(f_prob(x[1], x[2], x[3]), Half))

f_post_prob(x) == FDiv(FMul(f_prob(x[1], x[2], x[3]), Half), evidence(x))

nf_post_prob(x) == FDiv(FMul(nf_prob(x[1], x[4]), Half), evidence(x))

\* the comparison turned around: lt in place of gt
bayesian_flood_decision_lt(x) == FLt(f_post_prob(x), nf_post_prob(x))

\* x.array_element(index=0..3) are x[1..4]: sig0, std, wbsc, hbsc
bayesian_flood_decision(x) == FGt(f_post_prob(x), nf_post_prob(x))

\* decision_in.reduce_bands(bayesian_flood_decision).add_dimension('bands', 'dec', 'bands')
\*   .merge_cubes(decision_in)
Classified(decision_in_dc) ==
  merge_cubes(
    add_dimension([p \in Pixels |-> Num(bayesian_flood_decision(decision_in_dc.data[p]))],
                  "dec"),
    decision_in_dc)

(***************************************************************************)
(* The masks.                                                              *)
(***************************************************************************)
\* both bounds exclusive
mask_ia_strict(cube, wf) ==
  LET plia == band(cube, AngleBand(wf))
  IN [p \in Pixels |-> FGt(plia[p], AngleMin) /\ FLt(plia[p], AngleMax)]

mask_ia(cube, wf) ==
  LET plia == band(cube, AngleBand(wf))
  IN [p \in Pixels |-> FGe(plia[p], AngleMin) /\ FLe(plia[p], AngleMax)]

\* >= in place of >
mask_conflict_ge(cube) ==
  LET wbsc == band(cube, "wbsc")
      hbsc == band(cube, "hbsc")
  IN [p \in Pixels |-> FGe(hbsc[p], FAdd(wbsc[p], FMul(Half, nf_std)))]

mask_conflict(cube) ==
  LET wbsc == band(cube, "wbsc")
      hbsc == band(cube, "hbsc")
      water_bsc_threshold == [p \in Pixels |-> FAdd(wbsc[p], FMul(Half, nf_std))]
  IN [p \in Pixels |-> FGt(hbsc[p], water_bsc_threshold[p])]

mask_land_outliers(cube) ==
  LET hbsc == band(cube, "hbsc")
      std == band(cube, "std")
      sig0 == band(cube, "sig0")
      land_bsc_lower == [p \in Pixels |-> FSub(hbsc[p], FMul(Three, std[p]))]
      land_bsc_upper == [p \in Pixels |-> FAdd(hbsc[p], FMul(Three, std[p]))]
  IN [p \in Pixels |-> FGt(sig0[p], land_bsc_lower[p]) /\ FLt(sig0[p], land_bsc_upper[p])]

mask_water_outliers(cube) ==
  LET wbsc == band(cube, "wbsc")
      sig0 == band(cube, "sig0")
      water_bsc_upper == [p \in Pixels |-> FAdd(wbsc[p], FMul(Three, nf_std))]
  IN [p \in Pixels |-> FLt(sig0[p], water_bsc_upper[p])]

\* the two checks combined with "and" in place of "or"
mask_outliers_and(cube) ==
  LET mask_land == mask_land_outliers(cube)
      mask_water == mask_water_outliers(cube)
  IN [p \in Pixels |-> mask_land[p] /\ mask_water[p]]

mask_outliers(cube) ==
  LET mask_land == mask_land_outliers(cube)
      mask_water == mask_water_outliers(cube)
  IN [p \in Pixels |-> mask_land[p] \/ mask_water[p]]

\* the comparison turned around: dec < 0.8
mask_uncertainty_lt(cube) ==
  LET dec == band(cube, "dec")
  IN [p \in Pixels |-> FLt(dec[p], DecisionCutoff)]

mask_uncertainty(cube) ==
  LET dec == band(cube, "dec")
  IN [p \in Pixels |-> FGt(dec[p], DecisionCutoff)]

MaskNames == <<"ia", "conflict", "outliers", "uncertainty">>

\* The mask each notebook cell computes: from flood_dc, except that the local
\* notebook computes mask_conflict from decision_in.
\* every mask is computed on flood_dc, the local conflict mask too
ComputeMaskOnFlood(name, flood, decision, wf) ==
  IF name = "ia" THEN mask_ia(flood, wf)
  ELSE IF name = "conflict" THEN mask_conflict(flood)
  ELSE IF name = "outliers" THEN mask_outliers(flood)
  ELSE mask_uncertainty(flood)

ComputeMask(name, flood, decision, wf) ==
  IF name = "ia" THEN mask_ia(flood, wf)
  ELSE IF name = "conflict"
       THEN mask_conflict(IF wf = "local" THEN decision ELSE flood)
  ELSE IF name = "outliers" THEN mask_outliers(flood)
  ELSE mask_uncertainty(flood)

(***************************************************************************)
(* Input scenes.  A profile is the input of one pixel: incidence angle,    *)
(* observed backscatter, land standard deviation and harmonic parameters.  *)
(***************************************************************************)
\* the date both notebooks pass to harmonic_expected_backscatter
Dates == {<<"2", "0", "1", "8", "-", "0", "2", "-", "0", "1">>}

\* the digits of n in a field of the given width, zero-padded
RECURSIVE Padded(_, _)
Padded(n, width) ==
  IF width = 0 THEN <<>> ELSE Padded(n \div 10, width - 1) \o <<Digits[(n % 10) + 1]>>

\* the string YYYY-MM-DD of a date
isoformat(y, m, d) == Padded(y, 4) \o <<"-">> \o Padded(m, 2) \o <<"-">> \o Padded(d, 2)

\* dates for the harmonic model alone: the notebooks' date, the first and the
\* last day of common and leap years, and the days around 29 February
CalendarDates ==
  Dates \cup {isoformat(2020, 1, 1), isoformat(2020, 2, 29), isoformat(2020, 3, 1),
              isoformat(2020, 12, 31), isoformat(2021, 1, 1), isoformat(2021, 3, 1),
              isoformat(2021, 7, 2), isoformat(2021, 12, 31)}

\* other strings a caller can pass: dates not padded with zeros, other
\* separators, days and months outside the calendar, a short year, trailing
\* text, and the empty string
OtherDateStrings ==
  { <<"2", "0", "1", "8", "-", "2", "-", "1">>,
    <<"2", "0", "1", "8", "-", "1", "2", "-", "3">>,
    <<"2", "0", "1", "8", "-", "0", "2", "-", " ", "1">>,
    <<"2", "0", "1", "8", "/", "0", "2", "/", "0", "1">>,
    <<"2", "0", "1", "8", "0", "2", "0", "1">>,
    <<"0", "1", "-", "0", "2", "-", "2", "0", "1", "8">>,
    <<"1", "8", "-", "0", "2", "-", "0", "1">>,
    <<"2", "0", "1", "8", "-", "0", "2", "-", "0", "1", "T", "0", "0">>,
    <<"2", "0", "1", "8", "-", "0", "2", "-", "0", "1", "1">>,
    <<"2", "0", "1", "8", "-", "1", "-", "4", "5">>,
    <<>> }
    \cup {isoformat(2018, 2, 30), isoformat(2021, 2, 29), isoformat(2018, 13, 1),
          isoformat(2018, 0, 10), isoformat(2018, 4, 31), isoformat(2018, 6, 0),
          isoformat(0, 1, 1)}

Workflows == {"local", "remote"}

HparLabels == <<"M0", "S1", "S2", "S3", "C1", "C2", "C3", "STD">>

\* the harmonic parameters M0, S1, S2, S3, C1, C2, C3 of a pixel without seasons
Flat(m0) == <<m0, Zero, Zero, Zero, Zero, Zero, Zero>>

Seasonal == <<F(-10, 0), One, F(3, -1), F(-2, -1), F(-5, -1), F(4, -1), F(1, -1)>>

MkProfile(plia, sig0, std, hpar) == [plia |-> plia, sig0 |-> sig0, std |-> std, hpar |-> hpar]

Fifty == F(50, 0)

\* the usual incidence angle of the profiles, and the water backscatter there
Angle30 == F(30, 0)

W30 == water_model(Angle30)

\* a pixel observed at the water model whose land mean lies 50 dB above it
WaterProfile(std) == MkProfile(Angle30, W30, std, Flat(FAdd(W30, Fifty)))

\* a pixel observed at its land mean, 50 dB from the water model
LandProfile(std, m0) == MkProfile(Angle30, m0, std, Flat(m0))

\* a flooded pixel at the given incidence angle
AngleProfile(plia) == MkProfile(plia, F(-20, 0), One, Flat(F(-10, 0)))

\* the profiles, ordered so that neighbours contrast: the incidence angles
\* around both bounds; the far hypotheses from tiny to huge std; a pixel at its
\* land mean with a narrow and a unit std; land means at and just above the
\* conflict threshold; observations on the bounds of the outlier checks; a
\* seasonal land model; a pixel without data; a flooded pixel whose posterior is
\* near 0.5; a zero and a negative std; a fill value far from both means, where
\* both densities underflow; and a measurement outside both distributions
Profiles ==
  << AngleProfile(F(2699999, -5)),
     AngleProfile(AngleMin),
     AngleProfile(F(4800001, -5)),
     AngleProfile(AngleMax),
     WaterProfile(F(1, -73)),
     LandProfile(F(1, -73), FSub(W30, Fifty)),
     WaterProfile(F(1, -70)),
     LandProfile(F(1, -70), FSub(W30, Fifty)),
     WaterProfile(F(1, 70)),
     LandProfile(F(1, 70), FAdd(W30, Fifty)),
     WaterProfile(F(1, 73)),
     LandProfile(F(1, 73), FAdd(W30, Fifty)),
     WaterProfile(One),
     LandProfile(One, FSub(W30, Fifty)),
     MkProfile(Angle30, F(-10, 0), F(1, -1), Flat(F(-10, 0))),
     MkProfile(Angle30, F(-10, 0), One, Flat(F(-10, 0))),
     MkProfile(Angle30, W30, One, Flat(FAdd(W30, FMul(Half, nf_std)))),
     MkProfile(Angle30, W30, One, Flat(FAdd(FAdd(W30, FMul(Half, nf_std)), F(1, -5)))),
     MkProfile(Angle30, FAdd(W30, FMul(Three, nf_std)), One, Flat(F(-10, 0))),
     MkProfile(Angle30, F(-7, 0), One, Flat(F(-10, 0))),
     MkProfile(Angle30, F(-13, 0), One, Flat(F(-10, 0))),
     MkProfile(Angle30, F(-10, 0), One, Seasonal),
     MkProfile(Angle30, W30, One, Seasonal),
     MkProfile(Angle30, NaN, One, Flat(F(-10, 0))),
     MkProfile(Angle30, W30, Two, Flat(FAdd(W30, One))),
     MkProfile(Angle30, F(-10, 0), Zero, Flat(F(-10, 0))),
     MkProfile(Angle30, W30, F(-1, 0), Flat(F(-10, 0))),
     MkProfile(Angle30, F(-9999, 0), One, Flat(F(-10, 0))),
     MkProfile(Angle30, F(-75, -1), F(1, -1), Flat(F(-10, 0))) >>

NProfiles == Len(Profiles)

\* the scene whose pixel number i holds profile base + i of the cyclic list
SceneProfile(base, p) == Profiles[((base + PixelIndex(p)) % NProfiles) + 1]

\* the uniform scenario: PLIA = 30, M0 = -10, no seasons, std = 1, sig0 = -10
ReferenceProfile == MkProfile(Angle30, F(-10, 0), One, Flat(F(-10, 0)))

\* a band a collection can lack: the angle band of the workflow (the collection
\* then holds the angle band of the other workflow) or a harmonic parameter
AbsentBands == {"angle", "S2", "C3", "STD"}

\* a pixel inside the grid, with all its eight neighbours
Centre == <<2, 2>>

\* the scenes: a window of the profile list starting at every Width-th profile;
\* a uniform scene of the reference profile and one of a flooded profile; two
\* scenes uniform but for the pixel at Centre; and one of these without one of
\* the bands the workflow names
Scenes ==
  {[kind |-> "window", base |-> b, of |-> ReferenceProfile, centre |-> ReferenceProfile,
    without |-> "none"] :
     b \in {c \in 0 .. NProfiles - 1 : c % Width = 0}}
  \cup {[kind |-> "uniform", base |-> 0, of |-> pr, centre |-> pr, without |-> "none"] :
          pr \in {ReferenceProfile, AngleProfile(AngleMin)}}
  \cup {[kind |-> "uniform", base |-> 0, of |-> AngleProfile(AngleMin),
          centre |-> ReferenceProfile, without |-> "none"],
         [kind |-> "uniform", base |-> 0, of |-> ReferenceProfile,
          centre |-> AngleProfile(AngleMin), without |-> "none"]}
  \cup {[kind |-> "uniform", base |-> 0, of |-> AngleProfile(AngleMin),
          centre |-> ReferenceProfile, without |-> b] : b \in AbsentBands}

\* the profile of pixel p in a scene
ScenePixel(scene, p) ==
  IF scene.kind = "window" THEN SceneProfile(scene.base, p)
  ELSE IF p = Centre THEN scene.centre ELSE scene.of

VARIABLES workflow, dtime_str, plia_dc, sig0_dc, hparam_dc,
          water_bsc_dc, land_bsc_dc, decision_in, flood_dc,
          stage, flood_raw, applied, flood_decision, border, error, written

vars == <<workflow, dtime_str, plia_dc, sig0_dc, hparam_dc,
          water_bsc_dc, land_bsc_dc, decision_in, flood_dc,
          stage, flood_raw, applied, flood_decision, border, error, written>>

inputs == <<workflow, dtime_str, plia_dc, sig0_dc, hparam_dc>>

\* the result of the smoothing cell, the error raised so far, and the pixels
\* written by a stage that is computed tile by tile
smoothed == <<flood_decision, border, error, written>>

\* load_collection: the three collections of one scene
LoadScene(scene) ==
  /\ plia_dc = Cube(<<IF scene.without = "angle"
                        THEN AngleBand(CHOOSE wf \in Workflows : wf # workflow)
                        ELSE AngleBand(workflow)>>,
                    [p \in Pixels |-> <<ScenePixel(scene, p).plia>>])
  /\ sig0_dc = Cube(<<"VV">>, [p \in Pixels |-> <<ScenePixel(scene, p).sig0>>])
  /\ hparam_dc = LET present == {i \in 1 .. Len(HparLabels) :
                                   HparLabels[i] # scene.without}
                     Keep(x) == SelectSeq(
                                  [i \in 1 .. Len(x) |-> <<i, x[i]>>],
                                  LAMBDA e : e[1] \in present)
                     Values(x) == [i \in 1 .. Len(Keep(x)) |-> Keep(x)[i][2]]
                 IN Cube(Values(HparLabels),
                         [p \in Pixels |-> Values(ScenePixel(scene, p).hpar
                                                  \o <<ScenePixel(scene, p).std>>)])

\* nothing computed yet
NothingComputed ==
  /\ water_bsc_dc = NoCube
  /\ land_bsc_dc = NoCube
  /\ decision_in = NoCube
  /\ flood_dc = NoCube
  /\ flood_raw = NoCube
  /\ flood_decision = NoRaster
  /\ border = "none"
  /\ error = "none"
  /\ written = {}
  /\ stage = "loaded"
  /\ applied = <<>>

\* the collections as loaded
Init ==
  /\ workflow \in Workflows
  /\ dtime_str \in Dates
  /\ \E scene \in Scenes : LoadScene(scene)
  /\ NothingComputed

\* the errors a cell raises
DateError == "ValueError: time data does not match format"

BandError == "ValueError: invalid band name"

\* the cell that raises leaves flood_dc unbound
RaiseUnbinding(e) ==
  /\ error' = e
  /\ stage' = "failed"
  /\ flood_dc' = NoCube
  /\ UNCHANGED <<inputs, water_bsc_dc, land_bsc_dc, decision_in, flood_raw,
                 applied, flood_decision, border, written>>

\* a cell that raises binds nothing, and the cells after it are not run
Raise(e) ==
  /\ error' = e
  /\ stage' = "failed"
  /\ UNCHANGED <<inputs, water_bsc_dc, land_bsc_dc, decision_in, flood_dc, flood_raw,
                 applied, flood_decision, border, written>>

\* water_bsc_dc = water_backscatter(plia_dc): the remote function names band
\* MPLIA, the local one names no band
WaterBackscatter ==
  /\ stage = "loaded"
  /\ IF workflow = "remote" /\ ~HasBand(plia_dc, "MPLIA")
     THEN Raise(BandError)
     ELSE /\ water_bsc_dc' = water_backscatter(plia_dc, workflow)
          /\ stage' = "water"
          /\ UNCHANGED <<inputs, land_bsc_dc, decision_in, flood_dc, flood_raw, applied,
                         smoothed>>

\* land_bsc_dc = harmonic_expected_backscatter(hparam_dc, '2018-02-01')
\* the date is parsed before the first band is read
HarmonicExpectedBackscatter ==
  /\ stage = "water"
  /\ IF strptime(dtime_str).err
     THEN Raise(DateError)
     ELSE IF \E i \in 1 .. Len(HarmonicBands) : ~HasBand(hparam_dc, HarmonicBands[i])
     THEN Raise(BandError)
     ELSE /\ land_bsc_dc' = harmonic_expected_backscatter(hparam_dc, dtime_str)
          /\ stage' = "land"
          /\ UNCHANGED <<inputs, water_bsc_dc, decision_in, flood_dc, flood_raw, applied,
                         smoothed>>

\* std_dc, sig0_dc and decision_in
MergeCubes ==
  /\ stage = "land"
  /\ IF ~HasBand(hparam_dc, "STD")
     THEN Raise(BandError)
     ELSE /\ LET std_dc == add_dimension(band(hparam_dc, "STD"), "std")
                 sig0 == add_dimension(reduce_bands(sig0_dc, mean), "sig0")
             IN /\ sig0_dc' = sig0
                /\ decision_in' = merge_cubes(merge_cubes(merge_cubes(merge_cubes(
                                    sig0, std_dc), water_bsc_dc), land_bsc_dc), plia_dc)
          /\ stage' = "merged"
          /\ UNCHANGED <<workflow, dtime_str, plia_dc, hparam_dc, water_bsc_dc,
                         land_bsc_dc, flood_dc, flood_raw, applied, smoothed>>

\* flood_dc = decision_in.reduce_bands(bayesian_flood_decision) ... merge_cubes(decision_in)
Classify ==
  /\ stage = "merged"
  /\ flood_dc' = Classified(decision_in)
  /\ flood_raw' = Classified(decision_in)
  /\ stage' = "classified"
  /\ UNCHANGED <<inputs, water_bsc_dc, land_bsc_dc, decision_in, applied, smoothed>>

\* the multiplication writes into the cube that flood_dc was merged from
ApplyMaskInPlace(name, mask) ==
  /\ flood_dc' = Multiply(flood_dc, mask)
  /\ decision_in' = Multiply(decision_in, mask)
  /\ applied' = Append(applied, [name |-> name, mask |-> mask])
  /\ UNCHANGED <<inputs, water_bsc_dc, land_bsc_dc, flood_raw, stage, smoothed>>

\* flood_dc = flood_dc * mask, recorded in the history of applied masks
ApplyMask(name, mask) ==
  /\ flood_dc' = Multiply(flood_dc, mask)
  /\ applied' = Append(applied, [name |-> name, mask |-> mask])
  /\ UNCHANGED <<inputs, water_bsc_dc, land_bsc_dc, decision_in, flood_raw, stage, smoothed>>

\* the masking cells run so far are the first cells of the notebook, in its order
NotebookOrder ==
  /\ Len(applied) <= Len(MaskNames)
  /\ \A i \in 1 .. Len(applied) : applied[i].name = MaskNames[i]

\* a masking cell can run after the classification: any MaxMasks cells in any
\* order, and the four cells of the notebook in its order
CanMask(name) ==
  /\ stage = "classified"
  /\ \/ Len(applied) < MaxMasks
     \/ /\ NotebookOrder
        /\ Len(applied) < Len(MaskNames)
        /\ name = MaskNames[Len(applied) + 1]

\* the bands a masking cell names, and the cube it reads them from
MaskBands(name, wf) ==
  IF name = "ia" THEN {AngleBand(wf)}
  ELSE IF name = "conflict" THEN {"wbsc", "hbsc"}
  ELSE IF name = "outliers" THEN {"hbsc", "std", "sig0", "wbsc"}
  ELSE {"dec"}

MaskSource(name, flood, decision, wf) ==
  IF name = "conflict" /\ wf = "local" THEN decision ELSE flood

\* a masking cell: the mask is computed, its bands looked up, before flood_dc
\* is bound again
MaskCell(name) ==
  IF \E b \in MaskBands(name, workflow) :
       ~HasBand(MaskSource(name, flood_dc, decision_in, workflow), b)
  THEN Raise(BandError)
  ELSE ApplyMask(name, ComputeMask(name, flood_dc, decision_in, workflow))

\* 1) Masking of Exceeding Incidence Angles
MaskIa ==
  /\ CanMask("ia")
  /\ MaskCell("ia")

\* 2) Identification of Conflicting Distributions
MaskConflict ==
  /\ CanMask("conflict")
  /\ MaskCell("conflict")

\* 3) Removal of Measurement Outliers
MaskOutliers ==
  /\ CanMask("outliers")
  /\ MaskCell("outliers")

\* 4) Denial of High Uncertainty on Decision
MaskUncertainty ==
  /\ CanMask("uncertainty")
  /\ MaskCell("uncertainty")

\* Removal of Speckles: flood_decision = flood_dc.apply_neighborhood("median", ...),
\* of which the notebook shows flood_decision[0], the smoothed dec band
Smooth ==
  /\ workflow = "local"
  /\ stage = "classified"
  /\ \E b \in Borders :
       /\ flood_decision' = apply_neighborhood(band(flood_dc, "dec"), b)
       /\ border' = b
  /\ stage' = "smoothed"
  /\ UNCHANGED <<inputs, water_bsc_dc, land_bsc_dc, decision_in, flood_dc, flood_raw,
                 applied, error, written>>

Next ==
  \/ WaterBackscatter
  \/ HarmonicExpectedBackscatter
  \/ MergeCubes
  \/ Classify
  \/ MaskIa
  \/ MaskConflict
  \/ MaskOutliers
  \/ MaskUncertainty
  \/ Smooth

Spec == Init /\ [][Next]_vars

\* the two models alone, on any date of the calendar and on other strings
HarmonicInit ==
  /\ workflow \in Workflows
  /\ dtime_str \in CalendarDates \cup OtherDateStrings
  /\ \E scene \in Scenes : LoadScene(scene)
  /\ NothingComputed

HarmonicNext ==
  \/ WaterBackscatter
  \/ HarmonicExpectedBackscatter

HarmonicSpec == HarmonicInit /\ [][HarmonicNext]_vars

\* The back end computes a stage tile by tile, in no given order. The tiles
\* are the rows of the grid.
Tiles == {{p \in Pixels : p[2] = r} : r \in 1 .. Height}

\* the tile is written into the raster that the smoothing pass reads
SmoothInputInPlace ==
  [p \in Pixels |-> IF p \in written THEN flood_decision[p] ELSE band(flood_dc, "dec")[p]]

\* the raster the smoothing pass reads: the dec band of flood_dc
SmoothInput == band(flood_dc, "dec")

\* one tile of reduce_bands(bayesian_flood_decision) ... merge_cubes(decision_in)
ClassifyTile ==
  /\ stage = "merged"
  /\ \E t \in Tiles :
       /\ t \cap written = {}
       /\ LET whole == Classified(decision_in)
              cube == Cube(whole.labels,
                           [p \in Pixels |->
                              IF p \in t THEN whole.data[p]
                              ELSE IF p \in written THEN flood_dc.data[p] ELSE <<>>])
          IN /\ flood_dc' = cube
             /\ IF written \cup t = Pixels
                THEN stage' = "classified" /\ written' = {} /\ flood_raw' = cube
                ELSE UNCHANGED <<stage, flood_raw>> /\ written' = written \cup t
  /\ UNCHANGED <<inputs, water_bsc_dc, land_bsc_dc, decision_in, applied, flood_decision,
                 border, error>>

\* one tile of flood_dc.apply_neighborhood("median", ...); the border handling
\* is that of the back end, the same for every tile
SmoothTile ==
  /\ workflow = "local"
  /\ stage = "classified"
  /\ \E t \in Tiles : \E b \in Borders :
       /\ t \cap written = {}
       /\ written # {} => b = border
       /\ border' = b
       /\ flood_decision' = [p \in Pixels |->
                               IF p \in t THEN median(Window(SmoothInput, p, b))
                               ELSE flood_decision[p]]
       /\ IF written \cup t = Pixels
          THEN stage' = "smoothed" /\ written' = {}
          ELSE UNCHANGED stage /\ written' = written \cup t
  /\ UNCHANGED <<inputs, water_bsc_dc, land_bsc_dc, decision_in, flood_dc, flood_raw,
                 applied, error>>

TileNext ==
  \/ WaterBackscatter
  \/ HarmonicExpectedBackscatter
  \/ MergeCubes
  \/ ClassifyTile
  \/ SmoothTile

TileSpec == Init /\ [][TileNext]_vars
(***************************************************************************)
(* Properties.                                                             *)
(***************************************************************************)
Classified_ == stage = "classified"

\* the bands of pixel p before classification
Sig0At(p) == band(decision_in, "sig0")[p]

StdAt(p) == band(decision_in, "std")[p]

WbscAt(p) == band(decision_in, "wbsc")[p]

HbscAt(p) == band(decision_in, "hbsc")[p]

RawDec(p) == band(flood_raw, "dec")[p]

Dec(p) == band(flood_dc, "dec")[p]

IsPositive(a) == a.k # "nan" /\ a.s > 0

\* the density at v of the normal distribution with the given mean and scale
NormalPdf(v, mu, scale) ==
  LET z == FDiv(FSub(v, mu), scale)
  IN FMul(FDiv(One, FMul(scale, Sqrt2Pi)), FExp(FMul(MinusHalf, FMul(z, z))))

WaterLikelihood(p) == NormalPdf(Sig0At(p), WbscAt(p), nf_std)

LandLikelihood(p) == NormalPdf(Sig0At(p), HbscAt(p), StdAt(p))

PosteriorEvidence(p) == FAdd(FMul(WaterLikelihood(p), Half), FMul(LandLikelihood(p), Half))

\* C1: for every pixel with positive evidence the decision is "flooded" exactly
\* when the posterior of water, with likelihood Normal(wbsc, 2.754041), exceeds
\* the posterior of land, with likelihood Normal(hbsc, std), under equal priors.
C1_DecisionIsGaussianPosterior ==
  Classified_ =>
    \A p \in Pixels :
      (IsPositive(PosteriorEvidence(p)) /\ IsPositive(evidence(decision_in.data[p])))
        => ((RawDec(p) = One) <=>
              FGt(FDiv(FMul(WaterLikelihood(p), Half), PosteriorEvidence(p)),
                  FDiv(FMul(LandLikelihood(p), Half), PosteriorEvidence(p))))

\* C2: the pixel's std enters the land likelihood only (normalisation and
\* exponent) and never the water likelihood: another std leaves f_prob
\* unchanged, and nf_prob is the normal density of scale std.
C2_StdOnlyInLandLikelihood ==
  Classified_ =>
    \A p \in Pixels :
      /\ \A i \in 1 .. NProfiles :
           f_prob(Sig0At(p), Profiles[i].std, WbscAt(p)) = f_prob(Sig0At(p), StdAt(p), WbscAt(p))
      /\ nf_prob(Sig0At(p), HbscAt(p)) = LandLikelihood(p)

AtWater(p) == Sig0At(p) = WbscAt(p) /\ HbscAt(p) = FAdd(WbscAt(p), Fifty)

AtLand(p) ==
  /\ Sig0At(p) = HbscAt(p)
  /\ \/ WbscAt(p) = FAdd(HbscAt(p), Fifty)
     \/ WbscAt(p) = FSub(HbscAt(p), Fifty)

PlausibleStd(p) == FGe(StdAt(p), F(1, -70)) /\ FLe(StdAt(p), F(1, 70))

Step(c, name) == Multiply(c, ComputeMask(name, c, decision_in, workflow))

RECURSIVE Cascade(_, _)
\* the masking cells named by names, run in that order on cube c
Cascade(c, names) ==
  IF names = <<>> THEN c ELSE Cascade(Step(c, Head(names)), Tail(names))

RECURSIVE Repeat(_, _)
Repeat(name, n) == IF n = 0 THEN <<>> ELSE <<name>> \o Repeat(name, n - 1)

Count(name) == Cardinality({i \in 1 .. Len(applied) : applied[i].name = name})

\* the applied masks, each as often as applied, in the order of the notebook
AppliedSorted ==
  Repeat("ia", Count("ia")) \o Repeat("conflict", Count("conflict"))
    \o Repeat("outliers", Count("outliers")) \o Repeat("uncertainty", Count("uncertainty"))

\* the mask of the i-th applied cell, had it been computed on the unmasked cube
OriginalMask(i) == ComputeMask(applied[i].name, flood_raw, decision_in, workflow)

RetainedSoFar(i, p) == \A j \in 1 .. i - 1 : applied[j].mask[p]

ZeroBands(p) == [i \in 1 .. Len(flood_raw.data[p]) |-> Zero]

\* the effect of the first applied mask on pixel p
FirstMaskEffect(p) ==
  Len(applied) = 1 =>
    /\ Dec(p) = IF applied[1].mask[p] THEN RawDec(p) ELSE Zero
    /\ applied[1].mask[p] => flood_dc.data[p] = flood_raw.data[p]

FirstIs(name) == Classified_ /\ Len(applied) >= 1 /\ applied[1].name = name

\* every band a masking cell names is in flood_dc: each of the four cells
\* computes a mask (a cell that names an absent band raises and applies none)
MasksDefined ==
  \A i \in 1 .. Len(MaskNames) : \A b \in MaskBands(MaskNames[i], workflow) :
    HasBand(flood_dc, b)

\* C4: the masks commute: on every cube the cascade reaches, mask A then mask B
\* gives the raster of B then A, and the cube after any sequence of masks is the
\* one the same masks give in the notebook's order.
C4_MasksCommute ==
  (Classified_ /\ MasksDefined) =>
    /\ LET once == [i \in 1 .. Len(MaskNames) |-> Step(flood_dc, MaskNames[i])]
       IN \A i, j \in 1 .. Len(MaskNames) :
            i < j => Step(once[i], MaskNames[j]) = Step(once[j], MaskNames[i])
    /\ flood_dc = Cascade(flood_raw, AppliedSorted)

C4_Witness ==
  /\ Classified_
  /\ Len(applied) = 2
  /\ applied[1].name = "outliers" /\ applied[2].name = "ia"
  /\ \E p \in Pixels : applied[1].mask[p] /\ ~OriginalMask(2)[p] /\ RawDec(p) = One
  /\ \E p \in Pixels : ~applied[1].mask[p] /\ OriginalMask(2)[p]

\* C5: the masks are idempotent: on every cube the cascade reaches, recomputing
\* and applying a mask again gives the raster of applying it once.
C5_MasksIdempotent ==
  (Classified_ /\ MasksDefined) =>
    \A i \in 1 .. Len(MaskNames) :
      Step(Step(flood_dc, MaskNames[i]), MaskNames[i]) = Step(flood_dc, MaskNames[i])

C5_Witness ==
  /\ Classified_
  /\ Len(applied) = 2
  /\ applied[1].name = applied[2].name
  /\ \E p \in Pixels : ~applied[1].mask[p] /\ flood_dc.data[p] = ZeroBands(p)
  /\ \E p \in Pixels : applied[1].mask[p] /\ applied[2].mask[p]
                       /\ flood_dc.data[p] = flood_raw.data[p] /\ RawDec(p) = One

\* C6 as stated: the boolean every applied mask computed at a pixel is the one
\* it computes on the original unmasked inputs.
C6_MasksReadOriginalInputs ==
  Classified_ =>
    \A i \in 1 .. Len(applied) : \A p \in Pixels : applied[i].mask[p] = OriginalMask(i)[p]

\* the mask of the i-th applied cell, had it been computed on the unmasked cube
\* with every band multiplied by zero
SuppressedMask(i) ==
  ComputeMask(applied[i].name, Multiply(flood_raw, [p \in Pixels |-> FALSE]),
              decision_in, workflow)

\* C6, amended: at a pixel that every earlier mask retained, a mask computes
\* the boolean it computes on the original unmasked inputs; at a pixel an
\* earlier mask suppressed it is the boolean computed from the pixel's bands
\* multiplied by zero; the local notebook's conflict mask reads decision_in and
\* computes the boolean of the original inputs at every pixel.
C6_MasksReadRetainedInputs ==
  Classified_ =>
    \A i \in 1 .. Len(applied) : \A p \in Pixels :
      IF RetainedSoFar(i, p) \/ (workflow = "local" /\ applied[i].name = "conflict")
      THEN applied[i].mask[p] = OriginalMask(i)[p]
      ELSE applied[i].mask[p] = SuppressedMask(i)[p]

C6_Witness ==
  /\ Classified_
  /\ Len(applied) = 2
  /\ \E p \in Pixels : ~applied[1].mask[p] /\ applied[2].mask[p] # OriginalMask(2)[p]
  /\ \E p \in Pixels : applied[1].mask[p] /\ applied[2].mask[p]

\* C7: after any sequence of masks the decision of a pixel is its raw decision
\* where every applied mask was true and zero where one was false; a pixel that
\* is flooded was flooded in the raw classification, and with no mask applied
\* the cube is the raw classification.
C7_MaskedDecision ==
  Classified_ =>
    /\ \A p \in Pixels :
         /\ Dec(p) = IF \A i \in 1 .. Len(applied) : applied[i].mask[p]
                     THEN RawDec(p) ELSE Zero
         /\ Dec(p) = One => RawDec(p) = One
    /\ applied = <<>> => flood_dc = flood_raw

C7_Witness ==
  /\ Classified_
  /\ Len(applied) = 2
  /\ \E p \in Pixels : RawDec(p) = One /\ Dec(p) = Zero
  /\ \E p \in Pixels : RawDec(p) = One /\ Dec(p) = One

\* 27 <= a <= 48, read off the decimal digits of a
AngleInRange(a) ==
  a.k = "num" /\ a.s = 1 /\ a.e = -5 /\ a.m >= 2700000 /\ a.m <= 4800000

\* C8: the incidence-angle mask retains a pixel exactly when 27 <= PLIA <= 48,
\* both bounds included.
C8_AngleMask ==
  FirstIs("ia") =>
    \A p \in Pixels :
      /\ applied[1].mask[p] = AngleInRange(plia_dc.data[p][1])
      /\ FirstMaskEffect(p)

C8_Witness ==
  /\ FirstIs("ia")
  /\ Len(applied) = 1
  /\ \E p \in Pixels : plia_dc.data[p][1] = AngleMin /\ flood_dc.data[p] = flood_raw.data[p]
  /\ \E p \in Pixels : plia_dc.data[p][1] = F(4800001, -5) /\ flood_dc.data[p] = ZeroBands(p)

ConflictThreshold(p) == FAdd(WbscAt(p), FMul(Half, nf_std))

\* C9: the distribution-conflict mask retains a pixel exactly when
\* hbsc > wbsc + 0.5 * 2.754041; a pixel with hbsc at the threshold is suppressed.
C9_ConflictMask ==
  FirstIs("conflict") =>
    \A p \in Pixels :
      /\ applied[1].mask[p] = FLt(ConflictThreshold(p), HbscAt(p))
      /\ HbscAt(p) = ConflictThreshold(p) => ~applied[1].mask[p]
      /\ FirstMaskEffect(p)

C9_Witness ==
  /\ FirstIs("conflict")
  /\ Len(applied) = 1
  /\ \E p \in Pixels : HbscAt(p) = ConflictThreshold(p) /\ flood_dc.data[p] = ZeroBands(p)
  /\ \E p \in Pixels : applied[1].mask[p] /\ flood_dc.data[p] = flood_raw.data[p]

LandPlausible(p) ==
  /\ FLt(FSub(HbscAt(p), FMul(Three, StdAt(p))), Sig0At(p))
  /\ FLt(Sig0At(p), FAdd(HbscAt(p), FMul(Three, StdAt(p))))

BelowWaterBound(p) == FLt(Sig0At(p), FAdd(WbscAt(p), FMul(Three, nf_std)))

\* C10: the outlier mask retains a pixel exactly when
\* hbsc - 3*std < sig0 < hbsc + 3*std or sig0 < wbsc + 3 * 2.754041, all strict;
\* it suppresses a pixel only when both checks fail.
C10_OutlierMask ==
  FirstIs("outliers") =>
    \A p \in Pixels :
      /\ applied[1].mask[p] = (LandPlausible(p) \/ BelowWaterBound(p))
      /\ FirstMaskEffect(p)

C10_Witness ==
  /\ FirstIs("outliers")
  /\ Len(applied) = 1
  /\ \E p \in Pixels : LandPlausible(p) /\ ~BelowWaterBound(p)
                       /\ flood_dc.data[p] = flood_raw.data[p]
  /\ \E p \in Pixels : ~LandPlausible(p) /\ ~BelowWaterBound(p)
                       /\ flood_dc.data[p] = ZeroBands(p)

\* the distance of the water posterior of pixel p from 0.5 is below 0.2
NarrowMargin(p) ==
  LET post == f_post_prob(decision_in.data[p])
  IN FGt(post, F(3, -1)) /\ FLt(post, F(7, -1))

Smoothed == stage = "smoothed"

\* flood_dc holds a classification, masked or not
Masked == stage \in {"classified", "smoothed"}

\* pixel p was classified flooded and every applied mask retained it
FloodedAndRetained(p) ==
  RawDec(p) = One /\ \A i \in 1 .. Len(applied) : applied[i].mask[p]

\* the pixels of the grid in the 3x3 window centred on p
Neighbourhood(p) ==
  {q \in Pixels : q[1] - p[1] \in -1 .. 1 /\ q[2] - p[2] \in -1 .. 1}

\* the 3x3 window of p lies inside the grid
Interior(p) == Cardinality(Neighbourhood(p)) = 9

\* C12 as stated: every pixel flooded after the masks, and every pixel flooded
\* after the smoothing pass, was classified flooded and retained by every mask.
C12_FloodedWasClassified ==
  /\ Masked => \A p \in Pixels : Dec(p) = One => FloodedAndRetained(p)
  /\ Smoothed => \A p \in Pixels : flood_decision[p] = One => FloodedAndRetained(p)

\* C12, amended: every pixel flooded after the masks was classified flooded and
\* retained by every mask; a pixel flooded after the smoothing pass whose window
\* lies inside the grid has at least five such pixels in its window.
C12_FloodedHasFloodedMajority ==
  /\ Masked => \A p \in Pixels : Dec(p) = One => FloodedAndRetained(p)
  /\ Smoothed =>
       \A p \in Pixels :
         (Interior(p) /\ flood_decision[p] = One)
           => Cardinality({q \in Neighbourhood(p) : FloodedAndRetained(q)}) >= 5

C12_Witness ==
  /\ Smoothed
  /\ Len(applied) >= 1
  /\ \E p \in Pixels : Interior(p) /\ flood_decision[p] = One /\ RawDec(p) = Zero

\* the rasters have the shape of the inputs
SameShape ==
  /\ DOMAIN flood_dc.data = DOMAIN sig0_dc.data
  /\ DOMAIN flood_dc.data = DOMAIN plia_dc.data
  /\ Smoothed => DOMAIN flood_decision = DOMAIN plia_dc.data

Uniform == \A p, q \in Pixels : Dec(p) = Dec(q)

\* a window inside the grid with at least five flooded pixels becomes flooded,
\* so a non-flooded pixel whose eight neighbours are flooded becomes flooded
MajorityFloods ==
  \A p \in Pixels :
    (Interior(p) /\ Cardinality({q \in Neighbourhood(p) : Dec(q) = One}) >= 5)
      => flood_decision[p] = One

HbscComputed == stage = "land"

\* the date the string names
Today == strptime(dtime_str)

\* |a - b| <= tol
Near(a, b, tol) ==
  /\ ~IsNaN(a)
  /\ ~IsNaN(b)
  /\ FLe(FSub(a, b), tol)
  /\ FLe(FSub(b, a), tol)

\* C16 as stated: the value for day t equals the value for day t + 365, and
\* 1 January gives the value of day 366 of a leap year.
C16_PeriodicExactly ==
  HbscComputed =>
    /\ land_bsc_dc = harmonic_model(hparam_dc, tm_yday(Today) + 365)
    /\ tm_yday(Today) = 1 =>
         land_bsc_dc = harmonic_expected_backscatter(hparam_dc, isoformat(2020, 12, 31))

\* C16, amended: the value for day t agrees with the value for day t + 365 up
\* to rounding (within 0.0001 for the coefficients up to 1 of the scenes; the
\* two need not be the same floating point number), and 1 January agrees so
\* with day 366 of a leap year.
C16_PeriodicWithinTolerance ==
  HbscComputed =>
    \A p \in Pixels :
      /\ Near(land_bsc_dc.data[p][1],
              harmonic_model(hparam_dc, tm_yday(Today) + 365).data[p][1], F(1, -4))
      /\ tm_yday(Today) = 1 =>
           Near(land_bsc_dc.data[p][1],
                harmonic_expected_backscatter(
                  hparam_dc, isoformat(2020, 12, 31)).data[p][1], F(1, -4))

C16_Witness ==
  /\ HbscComputed
  /\ tm_yday(Today) = 1
  /\ \E p \in Pixels :
       /\ hparam_dc.data[p][2] # Zero
       /\ land_bsc_dc.data[p][1] # hparam_dc.data[p][1]
       /\ Near(land_bsc_dc.data[p][1],
               harmonic_expected_backscatter(
                 hparam_dc, isoformat(2020, 12, 31)).data[p][1], F(1, -4))

\* the days of the months of year y, counted from the calendar
MonthDays(y) ==
  <<31, IF y % 4 = 0 /\ (y % 100 # 0 \/ y % 400 = 0) THEN 29 ELSE 28,
    31, 30, 31, 30, 31, 31, 30, 31, 30, 31>>

\* the calendar ordinal of a date: the number of days of its year up to it
OrdinalDay(dt) ==
  Cardinality({md \in (1 .. 12) \X (1 .. 31) :
                 /\ md[2] <= MonthDays(dt.y)[md[1]]
                 /\ md[1] < dt.m \/ (md[1] = dt.m /\ md[2] <= dt.d)})

\* M0 + S1*sin(wt) + C1*cos(wt) + S2*sin(2wt) + C2*cos(2wt) + S3*sin(3wt) + C3*cos(3wt)
HarmonicSum(h, wt) ==
  FAdd(FAdd(FAdd(FAdd(FAdd(FAdd(h[1],
    FMul(h[2], FSin(wt))), FMul(h[5], FCos(wt))),
    FMul(h[3], FSin(FMul(Two, wt)))), FMul(h[6], FCos(FMul(Two, wt)))),
    FMul(h[4], FSin(FMul(Three, wt)))), FMul(h[7], FCos(FMul(Three, wt))))

\* C17: hbsc of a pixel is the harmonic sum of its parameters at
\* wt = (2*pi/365) * t, t the calendar ordinal of the date, 1..366, without a
\* leap-year adjustment: 31 December of a leap year is day 366, and a date after
\* 29 February is one day later in a leap year than in a common year.
C17_HarmonicFormula ==
  HbscComputed =>
    /\ land_bsc_dc.labels = <<"hbsc">>
    /\ tm_yday(Today) = OrdinalDay(Today)
    /\ tm_yday(Today) \in 1 .. 366
    /\ (IsLeap(Today.y) /\ Today.m = 12 /\ Today.d = 31)
         => tm_yday(Today) = 366
    /\ (IsLeap(Today.y) /\ Today.m > 2)
         => tm_yday(Today) = tm_yday([Today EXCEPT !.y = Today.y + 1]) + 1
    /\ \A p \in Pixels :
         land_bsc_dc.data[p]
           = <<HarmonicSum(hparam_dc.data[p],
                           FMul(FDiv(FMul(Two, Pi), F(365, 0)),
                                F(OrdinalDay(Today), 0)))>>

C17_Witness ==
  /\ HbscComputed
  /\ dtime_str = isoformat(2020, 12, 31)
  /\ tm_yday(Today) = 366
  /\ \E p \in Pixels :
       hparam_dc.data[p][4] # Zero /\ land_bsc_dc.data[p][1] # hparam_dc.data[p][1]

WbscComputed == water_bsc_dc # NoCube

\* C18: water_backscatter gives every pixel with incidence angle theta exactly
\* -0.394181 * theta + -4.142015 in one band wbsc, in the local workflow (the
\* mean of the one band) and in the remote workflow (band MPLIA), and the same
\* cube every time it is computed.
C18_WaterBackscatterLinear ==
  WbscComputed =>
    /\ water_bsc_dc.labels = <<"wbsc">>
    /\ workflow = "remote" => plia_dc.labels = <<"MPLIA">>
    /\ \A p \in Pixels :
         water_bsc_dc.data[p]
           = <<FAdd(FMul(F(-394181, -6), plia_dc.data[p][1]), F(-4142015, -6))>>
    /\ water_backscatter(plia_dc, workflow) = water_bsc_dc

C18_Witness ==
  /\ stage = "water"
  /\ workflow = "remote"
  /\ \E p, q \in Pixels :
       /\ plia_dc.data[p][1] = AngleMin
       /\ plia_dc.data[q][1] = AngleMax
       /\ FLt(water_bsc_dc.data[q][1], water_bsc_dc.data[p][1])
       /\ FLt(water_bsc_dc.data[p][1], F(-4142015, -6))

(***************************************************************************)
(* The scenario of the reference scene.                                    *)
(***************************************************************************)
\* PLIA = 30, M0 = -10, S1 = ... = C3 = 0, std = 1 and sig0 = -10 at every
\* pixel, on 2018-02-01
ReferenceScenario ==
  /\ dtime_str = <<"2", "0", "1", "8", "-", "0", "2", "-", "0", "1">>
  /\ \A p \in Pixels :
       /\ plia_dc.data[p] = <<F(30, 0)>>
       /\ sig0_dc.data[p] = <<F(-10, 0)>>
       /\ hparam_dc.data[p] = <<F(-10, 0), Zero, Zero, Zero, Zero, Zero, Zero, One>>

AllFourMasks == NotebookOrder /\ Len(applied) = Len(MaskNames)

\* C19: in the reference scenario the classifier returns not flooded at every
\* pixel, the angle, conflict and outlier masks are true at every pixel (on the
\* classified cube, and as the cells of the notebook compute them in its
\* order), and the output after all four masks is not flooded at every pixel.
C19_ReferenceScenario ==
  (ReferenceScenario /\ stage \in {"classified", "smoothed"}) =>
    \A p \in Pixels :
      /\ RawDec(p) = Zero
      /\ mask_ia(flood_raw, workflow)[p]
      /\ mask_conflict(flood_raw)[p]
      /\ mask_outliers(flood_raw)[p]
      /\ NotebookOrder =>
           \A i \in 1 .. Len(applied) :
             applied[i].name \in {"ia", "conflict", "outliers"} => applied[i].mask[p]
      /\ AllFourMasks => Dec(p) = Zero

C19_Witness ==
  /\ ReferenceScenario
  /\ Classified_
  /\ AllFourMasks
  /\ \A p \in Pixels :
       /\ \A i \in 1 .. 3 : applied[i].mask[p]
       /\ ~applied[4].mask[p]
       /\ RawDec(p) = Zero
       /\ Dec(p) = Zero

(***************************************************************************)
(* Parameters outside their range.                                         *)
(***************************************************************************)
\* C20 as stated: when the std of a pixel is zero or negative the classifier
\* signals InvalidParameter and gives that pixel no flood decision.
C20_InvalidStdSignalled ==
  stage \in {"classified", "smoothed"} =>
    \A p \in Pixels :
      (StdAt(p).k = "num" /\ StdAt(p).s <= 0) =>
        /\ error = "InvalidParameter"
        /\ RawDec(p) \notin {Zero, One}

\* both class densities are zero at pixel p, as the code computes them and as
\* the two normal densities
ZeroEvidence(p) ==
  /\ f_prob(Sig0At(p), StdAt(p), WbscAt(p)) = Zero
  /\ nf_prob(Sig0At(p), HbscAt(p)) = Zero
  /\ WaterLikelihood(p) = Zero
  /\ LandLikelihood(p) = Zero

\* C21 as stated: at a pixel whose evidence is zero the classifier's result is
\* an undefined (NaN) outcome, neither flooded nor not flooded.
C21_ZeroEvidenceUndefined ==
  stage \in {"classified", "smoothed"} =>
    \A p \in Pixels : ZeroEvidence(p) => RawDec(p) \notin {Zero, One}

(***************************************************************************)
(* Failures: the date string and the named bands.                          *)
(***************************************************************************)
\* a date in the form YYYY-MM-DD of ISO 8601: ten characters, zero-padded, a
\* day of the calendar

\* the ways of writing a date that the format %Y-%m-%d reads: the year in four
\* digits, the month and the day with or without the leading zero, the day also
\* with a blank in its place
Writings(year, m, d) ==
  LET months == {Padded(m, 2)} \cup (IF m < 10 THEN {<<Digits[m + 1]>>} ELSE {})
      days == {Padded(d, 2)}
                \cup (IF d < 10 THEN {<<Digits[d + 1]>>, <<" ", Digits[d + 1]>>} ELSE {})
  IN {year \o <<"-">> \o mm \o <<"-">> \o dd : mm \in months, dd \in days}

YearOf(s) ==
  IF Len(s) >= 4 /\ (\A i \in 1 .. 4 : IsDigit(s[i])) THEN Number(SubSeq(s, 1, 4)) ELSE 0

\* a date in the form YYYY-MM-DD of ISO 8601: ten characters, zero-padded, a
\* day of the calendar
IsIsoDate(s) ==
  /\ YearOf(s) >= 1
  /\ \E m \in 1 .. 12 : \E d \in 1 .. MonthDays(YearOf(s))[m] :
       s = isoformat(YearOf(s), m, d)

\* the days of the calendar that s is a writing of
DaysWritten(s) ==
  LET y == YearOf(s)
      year == Padded(y, 4)
      days == MonthDays(y)
  IN IF y < 1 THEN {}
     ELSE {md \in (1 .. 12) \X (1 .. 31) :
             md[2] <= days[md[1]] /\ s \in Writings(year, md[1], md[2])}

\* the harmonic cell raised: the water model is bound, hbsc is not
HarmonicFailed == stage = "failed" /\ water_bsc_dc # NoCube /\ land_bsc_dc = NoCube

CoefficientAbsent == \E i \in 1 .. Len(HarmonicBands) : ~HasBand(hparam_dc, HarmonicBands[i])

\* C22 as stated: a date string that is not a valid ISO YYYY-MM-DD date gives a
\* date-parse error and no hbsc raster, before any coefficient band is read.
C22_NonIsoDateFails ==
  (stage \in {"land", "failed"} /\ ~IsIsoDate(dtime_str)) =>
    /\ stage # "land"
    /\ land_bsc_dc = NoCube
    /\ HarmonicFailed => error = DateError

\* C22, amended: a string that is no writing of a calendar date in the form
\* year-month-day gives a date-parse error and no hbsc raster, also when a
\* coefficient band is absent; a writing without the leading zeros (2018-2-1) is
\* not ISO but is read as its date, and then hbsc is computed for that day unless
\* a coefficient band is absent.
C22_UnreadableDateFails ==
  (stage \in {"land", "failed"}) =>
    LET days == DaysWritten(dtime_str)
    IN IF days = {}
       THEN /\ stage # "land"
            /\ land_bsc_dc = NoCube
            /\ HarmonicFailed => error = DateError
       ELSE /\ Cardinality(days) = 1
            /\ HarmonicFailed => (error = BandError /\ CoefficientAbsent)
            /\ stage = "land" =>
                 \E md \in days :
                   land_bsc_dc
                     = harmonic_model(
                         hparam_dc,
                         OrdinalDay([y |-> YearOf(dtime_str), m |-> md[1], d |-> md[2]]))

C22_Witness ==
  /\ HarmonicFailed
  /\ error = DateError
  /\ DaysWritten(dtime_str) = {}
  /\ Len(dtime_str) = 10
  /\ CoefficientAbsent

\* the angle band the workflow names is absent from the angle collection
AngleAbsent == ~HasBand(plia_dc, AngleBand(workflow))

\* no operation that names an absent band has produced its result, and a run
\* fails only on an absent band
AbsentBandStops ==
  /\ CoefficientAbsent => land_bsc_dc = NoCube
  /\ ~HasBand(hparam_dc, "STD") => decision_in = NoCube
  /\ (workflow = "remote" /\ AngleAbsent) => water_bsc_dc = NoCube
  /\ \A i \in 1 .. Len(applied) : \A b \in MaskBands(applied[i].name, workflow) :
       HasBand(MaskSource(applied[i].name, flood_raw, decision_in, workflow), b)
  /\ stage = "failed" =>
       /\ error = BandError
       /\ CoefficientAbsent \/ ~HasBand(hparam_dc, "STD") \/ AngleAbsent

MergedFromInputs ==
  \A p \in Pixels :
    decision_in.data[p]
      = <<sig0_dc.data[p][1], band(hparam_dc, "STD")[p], water_bsc_dc.data[p][1],
          land_bsc_dc.data[p][1], plia_dc.data[p][1]>>

\* C24: no stage writes into a raster it reads: once the classification is
\* done, no mask and no smoothing changes the input rasters, the two models'
\* rasters or decision_in, whose bands sig0, std, wbsc, hbsc and angle stay the
\* values they were merged from; the stages only bind flood_dc and
\* flood_decision anew.
C24_NoStageMutatesInPlace ==
  /\ [](flood_dc # NoCube =>
          /\ decision_in.labels = <<"sig0", "std", "wbsc", "hbsc">> \o plia_dc.labels
          /\ MergedFromInputs)
  /\ [][flood_dc # NoCube =>
          /\ <<plia_dc, sig0_dc, hparam_dc>>' = <<plia_dc, sig0_dc, hparam_dc>>
          /\ <<water_bsc_dc, land_bsc_dc, decision_in>>'
               = <<water_bsc_dc, land_bsc_dc, decision_in>>
          /\ flood_dc' # flood_dc \/ flood_decision' # flood_decision
               \/ applied' # applied \/ stage' = "failed"]_vars

C24_Witness ==
  /\ Smoothed
  /\ Len(applied) = 2
  /\ MergedFromInputs
  /\ \E p \in Pixels :
       /\ flood_dc.data[p] = ZeroBands(p)
       /\ RawDec(p) = One
       /\ Sig0At(p) # Zero
       /\ flood_decision[p] = Zero

(***************************************************************************)
(* Two runs: the stage on its input and on an input disturbed elsewhere.   *)
(***************************************************************************)
\* how the second run differs from the first away from a pixel: every other
\* pixel holds the values of the pixel after it, or no data, or zero
Disturbances == {"shifted", "nan", "zero"}

NextPixel(q) == CHOOSE r \in Pixels : PixelIndex(r) = (PixelIndex(q) + 1) % (Width * Height)

\* the cube that agrees with c at the pixels of keep and is disturbed elsewhere
Disturbed(c, keep, how) ==
  Cube(c.labels,
       [q \in Pixels |->
          IF q \in keep THEN c.data[q]
          ELSE IF how = "shifted" THEN c.data[NextPixel(q)]
          ELSE [i \in 1 .. Len(c.data[q]) |-> IF how = "nan" THEN NaN ELSE Zero]])

\* the masking cell name gives pixel p the same mask and the same bands when
\* the other pixels of flood_dc and decision_in are disturbed
MaskLocalAt(name, p, how) ==
  LET flood == Disturbed(flood_dc, {p}, how)
      decision == Disturbed(decision_in, {p}, how)
      mask == ComputeMask(name, flood, decision, workflow)
  IN /\ mask[p] = ComputeMask(name, flood_dc, decision_in, workflow)[p]
     /\ Multiply(flood, mask).data[p]
          = Multiply(flood_dc, ComputeMask(name, flood_dc, decision_in, workflow)).data[p]

\* C25: the water model, the harmonic model, the classifier and every mask
\* give a pixel a value that depends on the input values at that pixel only: a
\* second run of the stage on an input that agrees at p and differs at every
\* other pixel gives p the same value. The smoothed value of p depends on the
\* values in its 3x3 window only: a second run on a raster that agrees in the
\* window of p and differs outside gives p the same value.
C25_PixelIndependence ==
  \A how \in Disturbances : \A p \in Pixels :
    /\ stage = "water" =>
         water_backscatter(Disturbed(plia_dc, {p}, how), workflow).data[p]
           = water_bsc_dc.data[p]
    /\ stage = "land" =>
         harmonic_expected_backscatter(Disturbed(hparam_dc, {p}, how), dtime_str).data[p]
           = land_bsc_dc.data[p]
    /\ (Classified_ /\ applied = <<>>) =>
         Classified(Disturbed(decision_in, {p}, how)).data[p] = flood_dc.data[p]
    /\ (Classified_ /\ MasksDefined) =>
         \A i \in 1 .. Len(MaskNames) : MaskLocalAt(MaskNames[i], p, how)
    /\ Smoothed =>
         apply_neighborhood(
           band(Disturbed(flood_dc, Neighbourhood(p), how), "dec"), border)[p]
           = flood_decision[p]

\* every stage has run on a scene whose pixels differ, and the smoothed value
\* of a pixel is another one when a neighbour in its window is disturbed
C25_Witness ==
  /\ Smoothed
  /\ Len(applied) = 2
  /\ \E p, q \in Pixels :
       /\ q \in Neighbourhood(p)
       /\ flood_raw.data[p] # flood_raw.data[q]
       /\ flood_dc.data[p] # flood_dc.data[q]
       /\ apply_neighborhood(
            band(Disturbed(flood_dc, Neighbourhood(p) \ {q}, "shifted"), "dec"), border)[p]
            # flood_decision[p]

OtherAngles == {Zero, AngleMin, F(90, 0), NaN}

\* the decision made from the named bands of pixel p of the merged cube
DecisionByName(p) ==
  bayesian_flood_decision(<<band(decision_in, "sig0")[p], band(decision_in, "std")[p],
                            band(decision_in, "wbsc")[p], band(decision_in, "hbsc")[p]>>)

\* C27: in both workflows the merged cube holds sig0, std, wbsc, hbsc and the
\* angle band in this order, so array_element(index=0..3) of the classifier are
\* the rasters of these names; the dec band is the decision made from them, and
\* it is the same whatever the angle band (position 4) holds.
C27_IndicesMatchMergeOrder ==
  decision_in # NoCube =>
    /\ decision_in.labels = <<"sig0", "std", "wbsc", "hbsc">> \o plia_dc.labels
    /\ Len(plia_dc.labels) = 1
    /\ \A p \in Pixels :
         /\ decision_in.data[p][1] = sig0_dc.data[p][1]
         /\ decision_in.data[p][2] = band(hparam_dc, "STD")[p]
         /\ decision_in.data[p][3] = water_bsc_dc.data[p][1]
         /\ decision_in.data[p][4] = land_bsc_dc.data[p][1]
         /\ decision_in.data[p][5] = plia_dc.data[p][1]
    /\ flood_raw # NoCube => flood_raw.labels = <<"dec">> \o decision_in.labels
    /\ (stage = "classified" /\ applied = <<>>) =>
         \A p \in Pixels :
           /\ flood_dc.data[p][1] = Num(DecisionByName(p))
           /\ \A a \in OtherAngles :
                bayesian_flood_decision([decision_in.data[p] EXCEPT ![5] = a])
                  = DecisionByName(p)

\* a remote run classified a flooded and a not flooded pixel of unequal angle
C27_Witness ==
  /\ workflow = "remote"
  /\ flood_raw # NoCube
  /\ \E p, q \in Pixels :
       /\ band(flood_raw, "dec")[p] = One
       /\ band(flood_raw, "dec")[q] = Zero
       /\ band(decision_in, "MPLIA")[p] # band(decision_in, "MPLIA")[q]

(***************************************************************************)
(* The pixels of the masked cube.                                          *)
(***************************************************************************)
\* C28: after any sequence of masks every pixel of flood_dc is intact (every
\* band holds its value before the masks) or suppressed (every band is zero).
C28_IntactOrSuppressed ==
  (stage = "classified" /\ flood_dc.labels = flood_raw.labels) =>
    \A p \in Pixels :
      \/ flood_dc.data[p] = flood_raw.data[p]
      \/ flood_dc.data[p] = ZeroBands(p)

\* the cube after the angle mask
AngleMasked == Multiply(flood_raw, mask_ia(flood_raw, workflow))

\* the conflict mask as the local notebook computes it, from decision_in
ConflictFromDecisionIn == mask_conflict(decision_in)

\* the conflict mask as the remote notebook computes it, from the angle-masked
\* flood_dc
ConflictFromFloodDc == mask_conflict(AngleMasked)

AngleThenConflict ==
  /\ stage = "classified"
  /\ Len(applied) = 2
  /\ applied[1].name = "ia"
  /\ applied[2].name = "conflict"

\* C29: after the angle mask and then the conflict mask, the local notebook
\* has computed the conflict mask from the unmasked decision_in and the remote
\* one from the angle-masked flood_dc, and the dec band is the same either way,
\* at every pixel: it is the dec band of the run.
C29_ConflictSourceSameDec ==
  AngleThenConflict =>
    /\ applied[2].mask
         = IF workflow = "local" THEN ConflictFromDecisionIn ELSE ConflictFromFloodDc
    /\ \A p \in Pixels :
         /\ band(Multiply(AngleMasked, ConflictFromDecisionIn), "dec")[p]
              = band(Multiply(AngleMasked, ConflictFromFloodDc), "dec")[p]
         /\ Dec(p) = band(Multiply(AngleMasked, ConflictFromFloodDc), "dec")[p]

\* the two conflict masks differ at a pixel, and a pixel stays flooded
C29_Witness ==
  /\ AngleThenConflict
  /\ \E p \in Pixels : ConflictFromDecisionIn[p] # ConflictFromFloodDc[p]
  /\ \E p \in Pixels : Dec(p) = One

\* flood_dc after the first k masking cells of the run
RECURSIVE MaskedBy(_)
MaskedBy(k) == IF k = 0 THEN flood_raw ELSE Multiply(MaskedBy(k - 1), applied[k].mask)

UncertaintyApplied ==
  /\ stage = "classified"
  /\ applied # <<>>
  /\ applied[Len(applied)].name = "uncertainty"

\* C30: the decision-confidence mask leaves the dec band as it was, after any
\* sequence of earlier masks; it zeroes the auxiliary bands at the pixels whose
\* dec is 0 and changes nothing else.
C30_UncertaintyOnlyZeroesAuxiliary ==
  UncertaintyApplied =>
    LET before == MaskedBy(Len(applied) - 1)
    IN /\ flood_dc = Multiply(before, mask_uncertainty(before))
       /\ \A p \in Pixels :
            /\ before.data[p][1] \in {Zero, One}
            /\ Dec(p) = before.data[p][1]
            /\ IF before.data[p][1] = Zero
               THEN \A i \in 2 .. Len(before.data[p]) : flood_dc.data[p][i] = Zero
               ELSE flood_dc.data[p] = before.data[p]
====
